---- MODULE Spec2Model ----
(***************************************************************************)
(* Model of src/main.py: the Book entity with its validating setters, the  *)
(* Library collection with its id allocator, and the two persistence       *)
(* codecs (JSON and pipe-delimited text).                                   *)
(*                                                                         *)
(* Python values are tagged records [t, v]: t is the Python type and v the *)
(* value.  A string is a sequence of symbols; a symbol is one character,   *)
(* except that the two status literals and str(None) are single symbols    *)
(* (they are never produced by user input in this model).                  *)
(***************************************************************************)
EXTENDS Integers, Sequences, FiniteSets, TLC

VARIABLES
    books,      \* Library.books: sequence of Book objects
    next_id,    \* Library.next_id: a Python value
    jsonFile,   \* the file <name>.json on disk
    textFile,   \* the file <name>.txt on disk
    op,         \* the Library method called last, with its arguments
    ret,        \* what that call returned, or the exception it raised
    adds        \* how many books add_book has returned so far

vars == <<books, next_id, jsonFile, textFile, op, ret, adds>>

----------------------------------------------------------------------------
(* Bounds of the model *)

MaxBooks == 2       \* add_book is not called on a catalog of this many books
MaxAdds == 2        \* add_book is not called once it has returned this many books

----------------------------------------------------------------------------
(* Python values *)

PyInt(n) == [t |-> "int", v |-> n]
PyStr(s) == [t |-> "str", v |-> s]
PyNone == [t |-> "None", v |-> 0]

IsInt(x) == x.t = "int"
IsStr(x) == x.t = "str"

Digits == {"0", "1", "2", "3", "4", "5", "6", "7", "8", "9"}

DigitOf(d) == CASE d = 0 -> "0" [] d = 1 -> "1" [] d = 2 -> "2" [] d = 3 -> "3"
                [] d = 4 -> "4" [] d = 5 -> "5" [] d = 6 -> "6" [] d = 7 -> "7"
                [] d = 8 -> "8" [] d = 9 -> "9"

ValueOf(c) == CHOOSE d \in 0..9 : DigitOf(d) = c

\* str.isdigit(): non-empty and every character a digit
isdigit(s) == Len(s) > 0 /\ \A i \in 1..Len(s) : s[i] \in Digits

RECURSIVE NatToStr(_)
NatToStr(n) == IF n < 10 THEN <<DigitOf(n)>>
               ELSE NatToStr(n \div 10) \o <<DigitOf(n % 10)>>

\* str(n) of an int
IntToStr(n) == IF n < 0 THEN <<"-">> \o NatToStr(0 - n) ELSE NatToStr(n)

RECURSIVE DigitsToNat(_)
DigitsToNat(s) == IF Len(s) = 0 THEN 0
                  ELSE 10 * DigitsToNat(SubSeq(s, 1, Len(s) - 1)) + ValueOf(s[Len(s)])

\* int(s) accepts an optional sign followed by digits (of the symbols of
\* this model; surrounding whitespace is stripped by the caller)
IsIntLiteral(s) == \/ isdigit(s)
                   \/ Len(s) > 1 /\ s[1] = "-" /\ isdigit(Tail(s))

StrToInt(s) == IF s[1] = "-" THEN 0 - DigitsToNat(Tail(s)) ELSE DigitsToNat(s)

----------------------------------------------------------------------------
(* class Book *)

STATUS_YES == <<"v nalichii">>
STATUS_NO == <<"vydana">>

NoError == "ok"

\* Fault for C9: an author setter without the isdigit() check
BookInitErrorNoDigitCheck(title, author, year) ==
    IF ~IsStr(title) THEN "ValueError"
    ELSE IF ~IsStr(author) THEN "ValueError"
    ELSE IF ~IsInt(year) THEN "ValueError"
    ELSE NoError

\* Fault for C17: a year setter that wants a year above zero
BookInitErrorPositiveYear(title, author, year) ==
    IF ~IsStr(title) THEN "ValueError"
    ELSE IF ~IsStr(author) THEN "ValueError"
    ELSE IF isdigit(author.v) THEN "ValueError"
    ELSE IF ~IsInt(year) \/ year.v <= 0 THEN "ValueError"
    ELSE NoError

\* Book.__init__ through the title, author and year setters: the exception
\* the construction raises, or NoError
BookInitError(title, author, year) ==
    IF ~IsStr(title) THEN "ValueError"
    ELSE IF ~IsStr(author) THEN "ValueError"
    ELSE IF isdigit(author.v) THEN "ValueError"
    ELSE IF ~IsInt(year) THEN "ValueError"
    ELSE NoError

\* The object Book.__init__ builds: detached, without id and status
Book(title, author, year) ==
    [id |-> PyNone, title |-> title, author |-> author, year |-> year,
     status |-> PyNone]

\* The id setter
IdSetterError(value) ==
    IF value # PyNone /\ ~IsInt(value) THEN "ValueError" ELSE NoError

\* The status setter
StatusSetterError(value) ==
    IF value # PyNone /\ value \notin {PyStr(STATUS_YES), PyStr(STATUS_NO)}
    THEN "ValueError" ELSE NoError

----------------------------------------------------------------------------
(* class Library *)

Returned(x) == [exc |-> NoError, val |-> x]
Raised(e) == [exc |-> e, val |-> 0]

NoFile == [exists |-> FALSE, data |-> <<>>]
File(d) == [exists |-> TRUE, data |-> d]

Init ==
    /\ books = <<>>
    /\ next_id = PyInt(1)
    /\ jsonFile = NoFile
    /\ textFile = NoFile
    /\ op = [name |-> "__init__"]
    /\ ret = Returned(0)
    /\ adds = 0

\* Fault for C8: an add_book that does not advance next_id
IncrementedNot(n) == n

\* The value of self.next_id += 1; a TypeError when next_id is None
Incremented(n) == PyInt(n.v + 1)

\* Fault for C14: an add_book that numbers the book by its place in the list
AppendedBookByLength(title, author, year) ==
    [Book(title, author, year) EXCEPT !.id = PyInt(Len(books) + 1),
                                      !.status = PyStr(STATUS_YES)]

AppendedBook(title, author, year) ==
    [Book(title, author, year) EXCEPT !.id = next_id, !.status = PyStr(STATUS_YES)]

add_book(title, author, year) ==
    /\ op' = [name |-> "add_book", title |-> title, author |-> author, year |-> year]
    /\ UNCHANGED <<jsonFile, textFile>>
    /\ IF BookInitError(title, author, year) # NoError
       THEN /\ ret' = Raised(BookInitError(title, author, year))
            /\ UNCHANGED <<books, next_id, adds>>
       ELSE IF IdSetterError(next_id) # NoError
       THEN /\ ret' = Raised(IdSetterError(next_id))
            /\ UNCHANGED <<books, next_id, adds>>
       ELSE /\ books' = Append(books, AppendedBook(title, author, year))
            /\ IF IsInt(next_id)
               THEN /\ next_id' = Incremented(next_id)
                    /\ ret' = Returned(AppendedBook(title, author, year))
                    /\ adds' = adds + 1
               ELSE /\ ret' = Raised("TypeError")
                    /\ UNCHANGED <<next_id, adds>>

\* Fault for C10: a removal that stops at the first book with the id
RECURSIVE WithoutFirst(_, _)
WithoutFirst(bs, book_id) ==
    IF bs = <<>> THEN <<>>
    ELSE IF Head(bs).id # book_id
         THEN <<Head(bs)>> \o WithoutFirst(Tail(bs), book_id)
         ELSE Tail(bs)

\* The list comprehension of remove_book
RECURSIVE Without(_, _)
Without(bs, book_id) ==
    IF bs = <<>> THEN <<>>
    ELSE IF Head(bs).id # book_id
         THEN <<Head(bs)>> \o Without(Tail(bs), book_id)
         ELSE Without(Tail(bs), book_id)

\* Fault for C7: a remove_book that hands the freed id back to the allocator
remove_book_reuse(book_id) ==
    /\ op' = [name |-> "remove_book", book_id |-> book_id]
    /\ books' = Without(books, book_id)
    /\ ret' = Returned(Len(Without(books, book_id)) < Len(books))
    /\ next_id' = IF Len(Without(books, book_id)) < Len(books) THEN book_id ELSE next_id
    /\ UNCHANGED <<jsonFile, textFile, adds>>

remove_book(book_id) ==
    /\ op' = [name |-> "remove_book", book_id |-> book_id]
    /\ books' = Without(books, book_id)
    /\ ret' = Returned(Len(Without(books, book_id)) < Len(books))
    /\ UNCHANGED <<next_id, jsonFile, textFile, adds>>

\* Fault for C12: the id taken for the number display_books prints before
\* each book
MatchingByPosition(book_id) == {i \in 1..Len(books) : PyInt(i) = book_id}

\* The positions of the books change_status visits that have this id
Matching(book_id) == {i \in 1..Len(books) : books[i].id = book_id}

FirstMatch(book_id) == CHOOSE i \in Matching(book_id) :
                           \A j \in Matching(book_id) : i <= j

\* Fault for C11: a change_status without the branch back to STATUS_YES
change_status_one_way(book_id) ==
    /\ op' = [name |-> "change_status", book_id |-> book_id]
    /\ UNCHANGED <<next_id, jsonFile, textFile, adds>>
    /\ IF Matching(book_id) = {}
       THEN /\ ret' = Returned(FALSE)
            /\ UNCHANGED books
       ELSE /\ books' = [books EXCEPT ![FirstMatch(book_id)].status = PyStr(STATUS_NO)]
            /\ ret' = Returned(TRUE)

\* Fault for C19: a change_status that goes on after the first book with
\* the id
change_status_every(book_id) ==
    /\ op' = [name |-> "change_status", book_id |-> book_id]
    /\ UNCHANGED <<next_id, jsonFile, textFile, adds>>
    /\ IF Matching(book_id) = {}
       THEN /\ ret' = Returned(FALSE)
            /\ UNCHANGED books
       ELSE IF \E i \in Matching(book_id) :
                 books[i].status \notin {PyStr(STATUS_YES), PyStr(STATUS_NO)}
       THEN /\ ret' = Raised("ValueError")
            /\ UNCHANGED books
       ELSE /\ ret' = Returned(TRUE)
            /\ books' = [i \in 1..Len(books) |->
                           IF i \in Matching(book_id)
                           THEN [books[i] EXCEPT !.status =
                                   IF books[i].status = PyStr(STATUS_YES)
                                   THEN PyStr(STATUS_NO) ELSE PyStr(STATUS_YES)]
                           ELSE books[i]]

change_status(book_id) ==
    /\ op' = [name |-> "change_status", book_id |-> book_id]
    /\ UNCHANGED <<next_id, jsonFile, textFile, adds>>
    /\ IF Matching(book_id) = {}
       THEN /\ ret' = Returned(FALSE)
            /\ UNCHANGED books
       ELSE LET i == FirstMatch(book_id) IN
            IF books[i].status = PyStr(STATUS_YES)
            THEN /\ books' = [books EXCEPT ![i].status = PyStr(STATUS_NO)]
                 /\ ret' = Returned(TRUE)
            ELSE IF books[i].status = PyStr(STATUS_NO)
            THEN /\ books' = [books EXCEPT ![i].status = PyStr(STATUS_YES)]
                 /\ ret' = Returned(TRUE)
            ELSE /\ ret' = Raised("ValueError")
                 /\ UNCHANGED books

\* Fault for C13: a find_books that keeps a book when any one supplied
\* criterion matches
RECURSIVE FoundAny(_, _, _, _)
FoundAny(bs, title, author, year) ==
    IF bs = <<>> THEN <<>>
    ELSE IF \/ (title # PyNone /\ Head(bs).title = title)
            \/ (author # PyNone /\ Head(bs).author = author)
            \/ (year # PyNone /\ Head(bs).year = year)
         THEN <<Head(bs)>> \o FoundAny(Tail(bs), title, author, year)
         ELSE FoundAny(Tail(bs), title, author, year)

\* The loop of find_books; None for a criterion that is not supplied
RECURSIVE Found(_, _, _, _)
Found(bs, title, author, year) ==
    IF bs = <<>> THEN <<>>
    ELSE IF /\ (title = PyNone \/ Head(bs).title = title)
            /\ (author = PyNone \/ Head(bs).author = author)
            /\ (year = PyNone \/ Head(bs).year = year)
         THEN <<Head(bs)>> \o Found(Tail(bs), title, author, year)
         ELSE Found(Tail(bs), title, author, year)

\* Fault for C18: a find_books that keeps its result as the catalog
find_books_in_place(title, author, year) ==
    /\ op' = [name |-> "find_books", title |-> title, author |-> author, year |-> year]
    /\ ret' = Returned(Found(books, title, author, year))
    /\ books' = Found(books, title, author, year)
    /\ UNCHANGED <<next_id, jsonFile, textFile, adds>>

find_books(title, author, year) ==
    /\ op' = [name |-> "find_books", title |-> title, author |-> author, year |-> year]
    /\ ret' = Returned(Found(books, title, author, year))
    /\ UNCHANGED <<books, next_id, jsonFile, textFile, adds>>

\* str(x) of a Python value, as an f-string formats it
PyToStr(x) == CASE x.t = "int" -> IntToStr(x.v)
                [] x.t = "str" -> x.v
                [] x.t = "None" -> <<"None">>

\* Book.__repr__
BookRepr(b) ==
    <<"ID: ">> \o PyToStr(b.id) \o <<", Title: ">> \o PyToStr(b.title)
    \o <<", Author: ">> \o PyToStr(b.author) \o <<", Year: ">> \o PyToStr(b.year)
    \o <<", Status: ">> \o PyToStr(b.status)

\* What display_books prints: a numbered line per book, or the notice that
\* the library holds no book
Printed(bs) ==
    IF Len(bs) > 0
    THEN [i \in 1..Len(bs) |-> IntToStr(i) \o <<". ">> \o BookRepr(bs[i])]
    ELSE <<<<"no books">>>>

display_books ==
    /\ op' = [name |-> "display_books"]
    /\ ret' = Returned(Printed(books))
    /\ UNCHANGED <<books, next_id, jsonFile, textFile, adds>>

----------------------------------------------------------------------------
(* The JSON codec.  A JSON value is [k, v] with k its JSON type; a JSON    *)
(* object is a record whose domain is the keys present in it.              *)

JNumber(n) == [k |-> "number", v |-> n]
JString(s) == [k |-> "string", v |-> s]
JNull == [k |-> "null", v |-> 0]

\* json.dump of a Python scalar
ToJson(x) == CASE x.t = "int" -> JNumber(x.v)
               [] x.t = "str" -> JString(x.v)
               [] x.t = "None" -> JNull

\* json.load of a JSON scalar
FromJson(j) == CASE j.k = "number" -> PyInt(j.v)
                 [] j.k = "string" -> PyStr(j.v)
                 [] j.k = "null" -> PyNone

\* Book.to_dict followed by json.dump of the dictionary
to_dict(b) ==
    [id |-> ToJson(b.id), title |-> ToJson(b.title), author |-> ToJson(b.author),
     year |-> ToJson(b.year), status |-> ToJson(b.status)]

\* The document save_to_json writes
JsonOf(bs, n) ==
    [next_id |-> ToJson(n), books |-> [i \in 1..Len(bs) |-> to_dict(bs[i])]]

save_to_json ==
    /\ op' = [name |-> "save_to_json"]
    /\ jsonFile' = File(JsonOf(books, next_id))
    /\ ret' = Returned(0)
    /\ UNCHANGED <<books, next_id, textFile, adds>>

\* Book.from_dict: the exception it raises on this JSON object, or NoError
from_dict_error(d) ==
    IF "title" \notin DOMAIN d THEN "KeyError"
    ELSE IF "author" \notin DOMAIN d THEN "KeyError"
    ELSE IF "year" \notin DOMAIN d THEN "KeyError"
    ELSE IF BookInitError(FromJson(d.title), FromJson(d.author), FromJson(d.year)) # NoError
    THEN BookInitError(FromJson(d.title), FromJson(d.author), FromJson(d.year))
    ELSE IF "id" \notin DOMAIN d THEN "KeyError"
    ELSE IF IdSetterError(FromJson(d.id)) # NoError THEN IdSetterError(FromJson(d.id))
    ELSE IF "status" \notin DOMAIN d THEN "KeyError"
    ELSE StatusSetterError(FromJson(d.status))

\* Fault for C5: a from_dict that does not restore the status
from_dict_without_status(d) ==
    [Book(FromJson(d.title), FromJson(d.author), FromJson(d.year))
       EXCEPT !.id = FromJson(d.id)]

\* Book.from_dict: the book it builds when it raises nothing
from_dict(d) ==
    [Book(FromJson(d.title), FromJson(d.author), FromJson(d.year))
       EXCEPT !.id = FromJson(d.id), !.status = FromJson(d.status)]

\* The list comprehension of load_from_json: the first exception raised
\* by from_dict over the array, or NoError
RECURSIVE FromDictAllError(_)
FromDictAllError(ds) ==
    IF ds = <<>> THEN NoError
    ELSE IF from_dict_error(Head(ds)) # NoError THEN from_dict_error(Head(ds))
    ELSE FromDictAllError(Tail(ds))

\* Fault for C16: a load_from_json that takes a missing file for an empty
\* library
LoadJsonMissingAsEmpty(file, bs, n) ==
    IF ~file.exists
    THEN [exc |-> NoError, books |-> <<>>, next_id |-> PyInt(1)]
    ELSE LET data == file.data IN
         IF "next_id" \notin DOMAIN data
         THEN [exc |-> "KeyError", books |-> bs, next_id |-> n]
         ELSE IF "books" \notin DOMAIN data
         THEN [exc |-> "KeyError", books |-> bs, next_id |-> FromJson(data.next_id)]
         ELSE IF FromDictAllError(data.books) # NoError
         THEN [exc |-> FromDictAllError(data.books), books |-> bs,
               next_id |-> FromJson(data.next_id)]
         ELSE [exc |-> NoError,
               books |-> [i \in 1..Len(data.books) |-> from_dict(data.books[i])],
               next_id |-> FromJson(data.next_id)]

\* load_from_json on this file, called with self.books = bs and
\* self.next_id = n: the exception raised (or NoError) and the two
\* attributes when the call ends
LoadJson(file, bs, n) ==
    IF ~file.exists
    THEN [exc |-> "FileNotFoundError", books |-> bs, next_id |-> n]
    ELSE LET data == file.data IN
         IF "next_id" \notin DOMAIN data
         THEN [exc |-> "KeyError", books |-> bs, next_id |-> n]
         ELSE IF "books" \notin DOMAIN data
         THEN [exc |-> "KeyError", books |-> bs, next_id |-> FromJson(data.next_id)]
         ELSE IF FromDictAllError(data.books) # NoError
         THEN [exc |-> FromDictAllError(data.books), books |-> bs,
               next_id |-> FromJson(data.next_id)]
         ELSE [exc |-> NoError,
               books |-> [i \in 1..Len(data.books) |-> from_dict(data.books[i])],
               next_id |-> FromJson(data.next_id)]

load_from_json ==
    LET r == LoadJson(jsonFile, books, next_id) IN
    /\ op' = [name |-> "load_from_json"]
    /\ books' = r.books
    /\ next_id' = r.next_id
    /\ ret' = IF r.exc = NoError THEN Returned(0) ELSE Raised(r.exc)
    /\ UNCHANGED <<jsonFile, textFile, adds>>

----------------------------------------------------------------------------
(* The text codec.  A text file is a sequence of symbols; "\n" ends a line. *)

NL == "\n"
SEP == "|"

\* Fault for C4: a writer that puts the author before the title
TextLineAuthorFirst(b) ==
    PyToStr(b.id) \o <<SEP>> \o PyToStr(b.author) \o <<SEP>> \o PyToStr(b.title)
    \o <<SEP>> \o PyToStr(b.year) \o <<SEP>> \o PyToStr(b.status) \o <<NL>>

\* One line of save_to_text
TextLine(b) ==
    PyToStr(b.id) \o <<SEP>> \o PyToStr(b.title) \o <<SEP>> \o PyToStr(b.author)
    \o <<SEP>> \o PyToStr(b.year) \o <<SEP>> \o PyToStr(b.status) \o <<NL>>

RECURSIVE TextLines(_)
TextLines(bs) == IF bs = <<>> THEN <<>> ELSE TextLine(Head(bs)) \o TextLines(Tail(bs))

\* The characters save_to_text writes
TextOf(bs, n) == PyToStr(n) \o <<NL>> \o TextLines(bs)

save_to_text ==
    /\ op' = [name |-> "save_to_text"]
    /\ textFile' = File(TextOf(books, next_id))
    /\ ret' = Returned(0)
    /\ UNCHANGED <<books, next_id, jsonFile, adds>>

\* The position of the first sep in s, or 0
RECURSIVE IndexOf(_, _, _)
IndexOf(s, sep, i) ==
    IF i > Len(s) THEN 0 ELSE IF s[i] = sep THEN i ELSE IndexOf(s, sep, i + 1)

\* f.readlines(): the lines of the file, each with the "\n" that ends it
RECURSIVE readlines(_)
readlines(data) ==
    IF data = <<>> THEN <<>>
    ELSE LET i == IndexOf(data, NL, 1) IN
         IF i = 0 THEN <<data>>
         ELSE <<SubSeq(data, 1, i)>> \o readlines(SubSeq(data, i + 1, Len(data)))

\* str.strip(): "\n" is the only whitespace among the symbols of the model
RECURSIVE strip(_)
strip(s) ==
    IF s = <<>> THEN s
    ELSE IF Head(s) = NL THEN strip(Tail(s))
    ELSE IF s[Len(s)] = NL THEN strip(SubSeq(s, 1, Len(s) - 1))
    ELSE s

\* str.split(sep)
RECURSIVE split(_, _)
split(s, sep) ==
    LET i == IndexOf(s, sep, 1) IN
    IF i = 0 THEN <<s>>
    ELSE <<SubSeq(s, 1, i - 1)>> \o split(SubSeq(s, i + 1, Len(s)), sep)

\* The body of the loop of load_from_text on one line: the exception it
\* raises, or NoError
TextLineError(line) ==
    LET parts == split(strip(line), SEP) IN
    IF Len(parts) < 4 THEN "IndexError"
    ELSE IF ~IsIntLiteral(parts[4]) THEN "ValueError"
    ELSE IF BookInitError(PyStr(parts[2]), PyStr(parts[3]), PyInt(StrToInt(parts[4]))) # NoError
    THEN BookInitError(PyStr(parts[2]), PyStr(parts[3]), PyInt(StrToInt(parts[4])))
    ELSE IF ~IsIntLiteral(parts[1]) THEN "ValueError"
    ELSE IF Len(parts) < 5 THEN "IndexError"
    ELSE StatusSetterError(PyStr(parts[5]))

\* The book that the body of the loop appends when it raises nothing
TextLineBook(line) ==
    LET parts == split(strip(line), SEP) IN
    [Book(PyStr(parts[2]), PyStr(parts[3]), PyInt(StrToInt(parts[4])))
       EXCEPT !.id = PyInt(StrToInt(parts[1])), !.status = PyStr(parts[5])]

\* The loop of load_from_text over lines[1:], started with self.books = acc:
\* the exception that ends it (or NoError) and self.books at that point
RECURSIVE LoadLines(_, _)
LoadLines(lines, acc) ==
    IF lines = <<>> THEN [exc |-> NoError, books |-> acc]
    ELSE IF TextLineError(Head(lines)) # NoError
    THEN [exc |-> TextLineError(Head(lines)), books |-> acc]
    ELSE LoadLines(Tail(lines), Append(acc, TextLineBook(Head(lines))))

\* Fault for C15: a load_from_text that does not empty self.books first
LoadTextMerging(file, bs, n) ==
    IF ~file.exists
    THEN [exc |-> "FileNotFoundError", books |-> bs, next_id |-> n]
    ELSE LET lines == readlines(file.data) IN
         IF lines = <<>>
         THEN [exc |-> "IndexError", books |-> bs, next_id |-> n]
         ELSE IF ~IsIntLiteral(strip(lines[1]))
         THEN [exc |-> "ValueError", books |-> bs, next_id |-> n]
         ELSE [exc |-> LoadLines(Tail(lines), bs).exc,
               books |-> LoadLines(Tail(lines), bs).books,
               next_id |-> PyInt(StrToInt(strip(lines[1])))]

\* load_from_text on this file, called with self.books = bs and
\* self.next_id = n: the exception raised (or NoError) and the two
\* attributes when the call ends
LoadText(file, bs, n) ==
    IF ~file.exists
    THEN [exc |-> "FileNotFoundError", books |-> bs, next_id |-> n]
    ELSE LET lines == readlines(file.data) IN
         IF lines = <<>>
         THEN [exc |-> "IndexError", books |-> bs, next_id |-> n]
         ELSE IF ~IsIntLiteral(strip(lines[1]))
         THEN [exc |-> "ValueError", books |-> bs, next_id |-> n]
         ELSE [exc |-> LoadLines(Tail(lines), <<>>).exc,
               books |-> LoadLines(Tail(lines), <<>>).books,
               next_id |-> PyInt(StrToInt(strip(lines[1])))]

load_from_text ==
    LET r == LoadText(textFile, books, next_id) IN
    /\ op' = [name |-> "load_from_text"]
    /\ books' = r.books
    /\ next_id' = r.next_id
    /\ ret' = IF r.exc = NoError THEN Returned(0) ELSE Raised(r.exc)
    /\ UNCHANGED <<jsonFile, textFile, adds>>

----------------------------------------------------------------------------
(* The callers of the Library: the arguments they pass and the files they  *)
(* find on disk.                                                           *)

PlainTitle == PyStr(<<"a">>)
PlainAuthor == PyStr(<<"b">>)
PlainYear == PyInt(0 - 12)

\* Arguments add_book accepts
ValidInputs ==
    { <<PlainTitle, PlainAuthor, PlainYear>>,
      <<PyStr(<<SEP>>), PlainAuthor, PlainYear>> }

\* Arguments add_book accepts whose author holds a line break
LineBreakInputs == { <<PyStr(<<>>), PyStr(<<NL>>), PyInt(7)>> }

\* Arguments a setter of Book rejects: a title that is no string, an author
\* that is no string or is made of digits, a year that is no integer
InvalidInputs ==
    { <<PyInt(1), PlainAuthor, PlainYear>>,
      <<PlainTitle, PyNone, PlainYear>>,
      <<PlainTitle, PyStr(<<"1", "9">>), PlainYear>>,
      <<PlainTitle, PlainAuthor, PyStr(<<"7">>)>> }

\* The ids remove_book and change_status are called with: those add_book
\* can have adds, and one more
BookIds == {PyInt(i) : i \in 1..(MaxAdds + 1)}

Criteria ==
    { <<PyNone, PyNone, PyNone>>,
      <<PlainTitle, PyNone, PyNone>>,
      <<PyStr(<<SEP>>), PlainAuthor, PlainYear>> }

JBook(id, status) ==
    [id |-> id, title |-> JString(<<"a">>), author |-> JString(<<"b">>),
     year |-> JNumber(7), status |-> status]

\* JSON documents written by something other than save_to_json
ForeignJson ==
    { \* two books with the same id
      [next_id |-> JNumber(2),
       books |-> <<JBook(JNumber(1), JString(STATUS_YES)), JBook(JNumber(1), JString(STATUS_YES))>>],
      \* a book without status
      [next_id |-> JNumber(2), books |-> <<JBook(JNumber(1), JNull)>>],
      \* a book without id
      [next_id |-> JNumber(2), books |-> <<JBook(JNull, JString(STATUS_NO))>>],
      \* a second book whose author is made of digits
      [next_id |-> JNumber(3),
       books |-> <<JBook(JNumber(1), JString(STATUS_YES)),
                   [JBook(JNumber(2), JString(STATUS_YES)) EXCEPT !.author = JString(<<"1">>)]>>],
      \* a book object without the key "year"
      [next_id |-> JNumber(3),
       books |-> <<[id |-> JNumber(1), title |-> JString(<<"a">>),
                    author |-> JString(<<"b">>), status |-> JString(STATUS_YES)]>>],
      \* no key "books"
      [next_id |-> JNumber(3)],
      \* no key "next_id"
      [books |-> <<JBook(JNumber(1), JString(STATUS_YES))>>],
      \* next_id is null
      [next_id |-> JNull, books |-> <<>>] }

\* Text files written by something other than save_to_text
ForeignText ==
    { \* a second line with too few fields
      <<"3", NL, "1", SEP, "a", SEP, "b", SEP, "7", SEP, "vydana", NL,
        "2", SEP, "a", NL>>,
      \* two books with the same id, not below next_id
      <<"1", NL, "1", SEP, "a", SEP, "b", SEP, "7", SEP, "v nalichii", NL,
        "1", SEP, "a", SEP, "b", SEP, "7", SEP, "vydana", NL>>,
      \* a first line that is no number
      <<"a", NL>>,
      \* an empty file
      <<>> }

\* Something other than the Library writes <name>.json
write_json(doc) ==
    /\ jsonFile' = File(doc)
    /\ op' = [name |-> "write_json"]
    /\ ret' = Returned(0)
    /\ UNCHANGED <<books, next_id, textFile, adds>>

\* Something other than the Library writes <name>.txt
write_text(data) ==
    /\ textFile' = File(data)
    /\ op' = [name |-> "write_text"]
    /\ ret' = Returned(0)
    /\ UNCHANGED <<books, next_id, jsonFile, adds>>

\* main: the exceptions the menu loop catches around its call of this
\* method; after any other exception the loop, and the program, ends
Caught(name) ==
    CASE name = "add_book" -> {"ValueError"}
      [] name \in {"load_from_json", "load_from_text"} -> {"FileNotFoundError"}
      [] OTHER -> {}

\* The model stops adding at MaxBooks books and after MaxAdds returned books
CanAdd == Len(books) < MaxBooks /\ adds < MaxAdds

AddBook == \E a \in ValidInputs \cup InvalidInputs : CanAdd /\ add_book(a[1], a[2], a[3])
AddBookLineBreak == \E a \in LineBreakInputs : CanAdd /\ add_book(a[1], a[2], a[3])
RemoveBook == \E id \in BookIds : remove_book(id)
ChangeStatus == \E id \in BookIds : change_status(id)
FindBooks == \E c \in Criteria : find_books(c[1], c[2], c[3])
DisplayBooks == display_books
SaveToJson == save_to_json
LoadFromJson == load_from_json
SaveToText == save_to_text
LoadFromText == load_from_text
WriteJson == \E doc \in ForeignJson : write_json(doc)
WriteText == \E data \in ForeignText : write_text(data)

\* The operations that neither read nor write a file
Core == AddBook \/ RemoveBook \/ ChangeStatus \/ FindBooks \/ DisplayBooks

NextJson == Core \/ SaveToJson \/ LoadFromJson \/ WriteJson
NextText == Core \/ AddBookLineBreak \/ SaveToText \/ LoadFromText \/ WriteText

\* The two codecs share nothing but the catalog (each reads and writes its
\* own file), so the catalog is checked with one codec at a time.

\* The catalog with the JSON codec alone
SpecJson == Init /\ [][NextJson]_vars
\* The catalog with the text codec alone
SpecText == Init /\ [][NextText]_vars
\* The catalog without persistence
SpecCore == Init /\ [][Core]_vars

----------------------------------------------------------------------------
(* Properties *)

Loads == {"load_from_json", "load_from_text"}

\* The arguments of an add_book call are valid: a string, a string that is
\* not made of digits, an integer
ValidArgs(o) ==
    /\ o.title.t = "str"
    /\ o.author.t = "str"
    /\ ~(o.author.v # <<>> /\ \A i \in 1..Len(o.author.v) : o.author.v[i] \in Digits)
    /\ o.year.t = "int"

\* C1: a load (of either codec) that raises leaves books and next_id as they
\* were before the call.
C1_FailedLoadLeavesCatalog ==
    [][(op'.name \in Loads /\ ret'.exc # NoError)
         => (books' = books /\ next_id' = next_id)]_vars

\* C2: the ids of the books in the catalog are pairwise distinct and each
\* is below next_id.
C2_IdsUniqueBelowNextId ==
    /\ \A i \in 1..Len(books) :
         IsInt(books[i].id) /\ IsInt(next_id) /\ books[i].id.v < next_id.v
    /\ \A i, j \in 1..Len(books) : i # j => books[i].id # books[j].id

\* C3: every book in the catalog has an id and one of the two statuses, and
\* change_status never raises.
C3_EveryBookCatalogued ==
    /\ \A i \in 1..Len(books) :
         /\ IsInt(books[i].id)
         /\ books[i].status \in {PyStr(STATUS_YES), PyStr(STATUS_NO)}
    /\ op.name = "change_status" => ret.exc = NoError

\* load_from_text of what save_to_text writes for this catalog, into the
\* same Library or into a new one, raises nothing and yields the catalog
TextRoundTrips(bs, n) ==
    \A prior \in {[books |-> bs, next_id |-> n], [books |-> <<>>, next_id |-> PyInt(1)]} :
        LoadText(File(TextOf(bs, n)), prior.books, prior.next_id)
          = [exc |-> NoError, books |-> bs, next_id |-> n]

\* C4 as claimed: save_to_text followed by load_from_text yields the saved
\* catalog, whatever strings the titles and authors are.
C4_TextRoundTrip == TextRoundTrips(books, next_id)

NoDelimiter(s) == \A i \in 1..Len(s) : s[i] \notin {SEP, NL}

\* C4 as amended: save_to_text followed by load_from_text yields the saved
\* catalog (same next_id, same books with the same fields in the same
\* order) when no title and no author holds "|" or a line break.
C4_TextRoundTripWithoutDelimiters ==
    (\A i \in 1..Len(books) :
        NoDelimiter(books[i].title.v) /\ NoDelimiter(books[i].author.v))
      => TextRoundTrips(books, next_id)

\* save_to_text then load_from_text have run on a catalog of two books of
\* different status
C4_Witness ==
    /\ op.name = "load_from_text" /\ ret.exc = NoError
    /\ textFile = File(TextOf(books, next_id))
    /\ Len(books) = 2 /\ books[1].status # books[2].status
    /\ NoDelimiter(books[1].title.v) /\ NoDelimiter(books[2].title.v)

\* C5: save_to_json followed by load_from_json, into the same Library or
\* into a new one, raises nothing and yields the saved catalog: the same
\* next_id and the same books with the same fields in the same order.
C5_JsonRoundTrip ==
    \A prior \in {[books |-> books, next_id |-> next_id],
                  [books |-> <<>>, next_id |-> PyInt(1)]} :
        LoadJson(File(JsonOf(books, next_id)), prior.books, prior.next_id)
          = [exc |-> NoError, books |-> books, next_id |-> next_id]

\* save_to_json then load_from_json have run on a catalog of two books of
\* different status
C5_Witness ==
    /\ op.name = "load_from_json" /\ ret.exc = NoError
    /\ jsonFile = File(JsonOf(books, next_id))
    /\ Len(books) = 2 /\ books[1].status # books[2].status

\* C6: add_book with valid arguments raises nothing, returns a book whose
\* id is the next_id of before the call and whose status is STATUS_YES,
\* appends it to books and leaves next_id one greater.
C6_AddValidSucceeds ==
    [][(op'.name = "add_book" /\ ValidArgs(op'))
         => /\ ret'.exc = NoError
            /\ ret'.val.id = next_id
            /\ ret'.val.status = PyStr(STATUS_YES)
            /\ books' = Append(books, ret'.val)
            /\ next_id' = PyInt(next_id.v + 1)]_vars

\* C7: on a new catalog under add, remove and change_status, the k-th
\* book that add_book returns has id k, and the ids in the catalog are
\* strictly increasing and were all returned by add_book.
C7_AddsReturnConsecutiveIds ==
    /\ (op.name = "add_book" /\ ret.exc = NoError) => ret.val.id = PyInt(adds)
    /\ \A i \in 1..Len(books) : IsInt(books[i].id) /\ books[i].id.v \in 1..adds
    /\ \A i, j \in 1..Len(books) : i < j => books[i].id.v < books[j].id.v

\* The second add_book has returned after the first book was removed
C7_Witness ==
    /\ op.name = "add_book" /\ ret.exc = NoError
    /\ adds = 2 /\ Len(books) = 1

\* C8 as claimed: next_id starts at 1, grows by 1 on every add_book that
\* returns, and no operation ever lowers it.
C8_NextIdNeverDecreases ==
    /\ next_id = PyInt(1)
    /\ [][/\ (op'.name = "add_book" /\ ret'.exc = NoError)
               => next_id' = PyInt(next_id.v + 1)
          /\ (IsInt(next_id) /\ IsInt(next_id')) => next_id'.v >= next_id.v]_vars

\* C8 as amended: next_id starts at 1, grows by 1 on every add_book that
\* returns, and is left as it is by every other operation that is not a
\* load.
C8_NextIdChangesByAddOrLoad ==
    /\ next_id = PyInt(1)
    /\ [][IF op'.name = "add_book" /\ ret'.exc = NoError
          THEN next_id' = PyInt(next_id.v + 1)
          ELSE op'.name \notin Loads => next_id' = next_id]_vars

\* add_book has returned its second book after a load
C8_Witness ==
    /\ op.name = "add_book" /\ ret.exc = NoError
    /\ adds = 2 /\ next_id = PyInt(2)

\* C9: add_book with an invalid argument raises ValueError and leaves
\* books and next_id as they were.
C9_InvalidAddChangesNothing ==
    [][(op'.name = "add_book" /\ ~ValidArgs(op'))
         => (ret'.exc = "ValueError" /\ books' = books /\ next_id' = next_id)]_vars

\* add_book has rejected an author made of digits on a catalog that holds
\* a book
C9_Witness ==
    /\ op.name = "add_book" /\ ret.exc = "ValueError"
    /\ op.title.t = "str" /\ op.author.t = "str" /\ op.year.t = "int"
    /\ Len(books) > 0

Others(bs, id) == SelectSeq(bs, LAMBDA b : b.id # id)

\* C10: remove_book raises nothing, returns whether a book had the id,
\* leaves no book with the id and every other book where it was, and
\* leaves next_id.
C10_RemoveBook ==
    [][op'.name = "remove_book"
         => /\ ret'.exc = NoError
            /\ ret'.val = (\E i \in 1..Len(books) : books[i].id = op'.book_id)
            /\ \A i \in 1..Len(books') : books'[i].id # op'.book_id
            /\ books' = Others(books, op'.book_id)
            /\ next_id' = next_id]_vars

\* remove_book has removed one of two books
C10_Witness ==
    /\ op.name = "remove_book" /\ ret = Returned(TRUE)
    /\ Len(books) = 1 /\ books[1].id # op.book_id

Statuses == {PyStr(STATUS_YES), PyStr(STATUS_NO)}

OtherStatus(st) == IF st = PyStr(STATUS_YES) THEN PyStr(STATUS_NO) ELSE PyStr(STATUS_YES)

HasId(bs, id) == \E i \in 1..Len(bs) : bs[i].id = id

\* The first position in bs of a book with the id
FirstWithId(bs, id) ==
    CHOOSE i \in 1..Len(bs) : bs[i].id = id /\ \A j \in 1..(i - 1) : bs[j].id # id

\* bs with the status of the first book with the id switched to the other
\* status
Flipped(bs, id) ==
    [bs EXCEPT ![FirstWithId(bs, id)].status = OtherStatus(bs[FirstWithId(bs, id)].status)]

\* C11: change_status on an id in the catalog, whose book has one of the
\* two statuses, returns True and switches that status to the other one;
\* a second change_status on the id gives back the catalog of before the
\* first.
C11_ToggleFlipsAndTwiceRestores ==
    [][(/\ op'.name = "change_status"
        /\ HasId(books, op'.book_id)
        /\ books[FirstWithId(books, op'.book_id)].status \in Statuses)
         => /\ ret' = Returned(TRUE)
            /\ books' = Flipped(books, op'.book_id)
            /\ books'[FirstWithId(books, op'.book_id)].status
                 = OtherStatus(books[FirstWithId(books, op'.book_id)].status)
            /\ Flipped(books', op'.book_id) = books
            /\ next_id' = next_id]_vars

\* change_status has brought a book back to STATUS_YES
C11_Witness ==
    /\ op.name = "change_status" /\ ret = Returned(TRUE)
    /\ adds > 0
    /\ HasId(books, op.book_id)
    /\ books[FirstWithId(books, op.book_id)].status = PyStr(STATUS_YES)

\* C12: change_status on an id that no book in the catalog has returns
\* False, raises nothing, and leaves books (and so every status) and
\* next_id as they were.
C12_ToggleAbsentChangesNothing ==
    [][(op'.name = "change_status" /\ ~HasId(books, op'.book_id))
         => (ret' = Returned(FALSE) /\ books' = books /\ next_id' = next_id)]_vars

\* change_status has returned False for the id of a removed book, in a
\* catalog that still holds a book
C12_Witness ==
    /\ op.name = "change_status" /\ ret = Returned(FALSE)
    /\ op.book_id.v <= adds
    /\ Len(books) > 0

\* The book has the value of every criterion that the find_books call o
\* supplies
Meets(b, o) ==
    /\ o.title # PyNone => b.title = o.title
    /\ o.author # PyNone => b.author = o.author
    /\ o.year # PyNone => b.year = o.year

\* C13: find_books returns the books that equal every supplied criterion,
\* in catalog order (all the books when no criterion is supplied), and
\* leaves books and next_id as they were.
C13_FindReturnsMatchingSubsequence ==
    [][op'.name = "find_books"
         => /\ ret' = Returned(SelectSeq(books, LAMBDA b : Meets(b, op')))
            /\ (op'.title = PyNone /\ op'.author = PyNone /\ op'.year = PyNone)
                 => ret'.val = books
            /\ books' = books
            /\ next_id' = next_id]_vars

\* find_books by title has returned one of the two books of the catalog
C13_Witness ==
    /\ op.name = "find_books" /\ op.title # PyNone
    /\ ret.exc = NoError /\ Len(ret.val) = 1
    /\ Len(books) = 2

StatusOf(bs, id) == bs[FirstWithId(bs, id)].status

\* Without loads, add_book has issued the ids 1..adds: such an id that no
\* book has is the id of a removed book
Removed(id) == id.v \in 1..adds /\ ~HasId(books, id)

\* C14: under add, remove and change_status a book enters the catalog
\* through add_book, with a new id and STATUS_YES; its status changes only
\* in a change_status on its id, and every such call switches it to the
\* other status; it leaves only in a
\* remove_book on its id that returns True; and once removed its id stays
\* out of the catalog, and change_status and remove_book on it return False.
C14_Lifecycle ==
    [][\A id \in BookIds :
         /\ (~HasId(books, id) /\ HasId(books', id))
              => /\ op'.name = "add_book" /\ ret'.exc = NoError
                 /\ ~Removed(id)
                 /\ StatusOf(books', id) = PyStr(STATUS_YES)
         /\ (HasId(books, id) /\ HasId(books', id)
               /\ StatusOf(books', id) # StatusOf(books, id))
              => /\ op' = [name |-> "change_status", book_id |-> id]
                 /\ StatusOf(books', id) = OtherStatus(StatusOf(books, id))
         /\ (HasId(books, id) /\ op' = [name |-> "change_status", book_id |-> id])
              => /\ HasId(books', id)
                 /\ StatusOf(books', id) = OtherStatus(StatusOf(books, id))
         /\ (HasId(books, id) /\ ~HasId(books', id))
              => /\ op' = [name |-> "remove_book", book_id |-> id]
                 /\ ret' = Returned(TRUE)
         /\ Removed(id)
              => /\ ~HasId(books', id)
                 /\ op' \in {[name |-> "change_status", book_id |-> id],
                             [name |-> "remove_book", book_id |-> id]}
                      => ret' = Returned(FALSE)]_vars

\* change_status has returned False for the id of a removed book, after a
\* book that is still in the catalog was switched to STATUS_NO
C14_Witness ==
    /\ op.name = "change_status" /\ ret = Returned(FALSE)
    /\ Removed(op.book_id)
    /\ Len(books) = 1 /\ books[1].status = PyStr(STATUS_NO)

\* What load_from_text makes of this file in a new Library
NewText(f) == LoadText(f, <<>>, PyInt(1))

\* What load_from_json makes of this file in a new Library
NewJson(f) == LoadJson(f, <<>>, PyInt(1))

\* The catalog a call left, as the loaders describe it
Left(exc, bs, n) == [exc |-> exc, books |-> bs, next_id |-> n]

\* A load of this JSON file by the present catalog succeeds exactly when a
\* load by a new Library does, and then both end with the same books and
\* next_id: the document's "next_id" and the objects of its "books", in order
JsonLoadReplaces(f) ==
    LET r == LoadJson(f, books, next_id) IN
    (r.exc = NoError \/ NewJson(f).exc = NoError)
      => /\ r = NewJson(f)
         /\ r.next_id = FromJson(f.data.next_id)
         /\ Len(r.books) = Len(f.data.books)
         /\ \A i \in 1..Len(r.books) : to_dict(r.books[i]) = f.data.books[i]

\* C15: a load that succeeds replaces the catalog.  When load_from_text is
\* called, whatever the catalog holds, it returns exactly when it returns in
\* a new Library, and the catalog then has the books and the next_id the new
\* Library would have: the number on the first line of the file and one book
\* for each line after it.  The same holds of load_from_json, on the file on
\* disk, on the file a save would write and on the foreign documents.
C15_SuccessfulLoadReplaces ==
    [][op'.name \in Loads
         => /\ (op'.name = "load_from_text"
                  /\ (ret'.exc = NoError \/ NewText(textFile).exc = NoError))
                 => /\ Left(ret'.exc, books', next_id') = NewText(textFile)
                    /\ next_id' = PyInt(StrToInt(strip(readlines(textFile.data)[1])))
                    /\ Len(books') = Len(readlines(textFile.data)) - 1
            /\ (op'.name = "load_from_json"
                  /\ (ret'.exc = NoError \/ NewJson(jsonFile).exc = NoError))
                 => Left(ret'.exc, books', next_id') = NewJson(jsonFile)
            /\ JsonLoadReplaces(jsonFile)
            /\ JsonLoadReplaces(File(JsonOf(books, next_id)))
            /\ \A d \in ForeignJson : JsonLoadReplaces(File(d))]_vars

\* A catalog that add_book had filled has loaded the file with two books of
\* id 1 and next_id 1
C15_Witness ==
    /\ op.name = "load_from_text" /\ ret = Returned(0)
    /\ adds = MaxAdds
    /\ next_id = PyInt(1)
    /\ Len(books) = 2 /\ books[1].id = books[2].id

\* C16: a load from a file that does not exist raises FileNotFoundError
\* and leaves books and next_id as they were, with either codec, and the
\* menu loop of main catches that exception, so that it goes on with the
\* same catalog.
C16_LoadOfMissingFile ==
    [][/\ LoadJson(NoFile, books, next_id) = Left("FileNotFoundError", books, next_id)
       /\ LoadText(NoFile, books, next_id) = Left("FileNotFoundError", books, next_id)
       /\ \A name \in Loads : "FileNotFoundError" \in Caught(name)
       /\ \/ op'.name = "load_from_json" /\ ~jsonFile.exists
          \/ op'.name = "load_from_text" /\ ~textFile.exists
          => /\ ret' = Raised("FileNotFoundError")
             /\ ret'.exc \in Caught(op'.name)
             /\ books' = books
             /\ next_id' = next_id]_vars

\* load_from_json has found no file and left a catalog of two books
C16_Witness ==
    /\ op.name = "load_from_json" /\ ret = Raised("FileNotFoundError")
    /\ ~jsonFile.exists
    /\ Len(books) = 2

\* Values a caller can pass to Book(title, author, year)
PyValues ==
    { PyNone, PyInt(0), PyInt(0 - 12), PyInt(7),
      PyStr(<<>>), PyStr(<<"a">>), PyStr(<<"1", "9">>), PyStr(<<"1", "a">>) }

\* The title is no string, or the author is no string or is one or more
\* characters that are all digits, or the year is no integer
Rejected(title, author, year) ==
    \/ title.t # "str"
    \/ author.t # "str"
    \/ author.t = "str" /\ author.v # <<>> /\ \A i \in 1..Len(author.v) : author.v[i] \in Digits
    \/ year.t # "int"

\* C17: Book(title, author, year) raises ValueError exactly when the title
\* is no string, the author is no string or is made of digits, or the year
\* is no integer; otherwise (an empty title, a year of zero or below
\* included) it builds a book with these three values and with id and
\* status None.  add_book, which builds the book before anything else,
\* raises ValueError in exactly these cases.
C17_ConstructorValidation ==
    /\ \A title \in PyValues, author \in PyValues, year \in PyValues :
         IF Rejected(title, author, year)
         THEN BookInitError(title, author, year) = "ValueError"
         ELSE /\ BookInitError(title, author, year) = NoError
              /\ Book(title, author, year)
                   = [id |-> PyNone, status |-> PyNone,
                      title |-> title, author |-> author, year |-> year]
    /\ op.name = "add_book"
         => (ret.exc = "ValueError" <=> Rejected(op.title, op.author, op.year))

\* add_book has refused an author made of digits on an empty catalog, after
\* it had accepted a book with a year below zero
C17_Witness ==
    /\ op.name = "add_book" /\ ret.exc = "ValueError"
    /\ op.author = PyStr(<<"1", "9">>)
    /\ adds = 1 /\ books = <<>>

\* The places where two lists of the same length differ
Changed(bs, cs) == {i \in 1..Len(bs) : cs[i] # bs[i]}

\* C18: add_book leaves every book of the catalog as and where it is;
\* remove_book leaves the books it keeps as they are and in their order;
\* change_status leaves next_id, the order and all books as they are,
\* but for the status of at most one book, which has the id, and of just
\* one when it returns True; find_books, display_books, save_to_json and
\* save_to_text leave books and next_id as they are.
C18_Frame ==
    [][/\ op'.name = "add_book"
            => /\ Len(books') >= Len(books)
               /\ SubSeq(books', 1, Len(books)) = books
       /\ op'.name = "remove_book"
            => /\ books' = SelectSeq(books, LAMBDA b : b.id # op'.book_id)
               /\ next_id' = next_id
       /\ op'.name = "change_status"
            => /\ next_id' = next_id
               /\ Len(books') = Len(books)
               /\ Cardinality(Changed(books, books')) <= 1
               /\ ret' = Returned(TRUE) => Cardinality(Changed(books, books')) = 1
               /\ \A i \in Changed(books, books') :
                    /\ books[i].id = op'.book_id
                    /\ books'[i] = [books[i] EXCEPT !.status = books'[i].status]
       /\ op'.name \in {"find_books", "display_books", "save_to_json", "save_to_text"}
            => /\ books' = books
               /\ next_id' = next_id]_vars

\* change_status has switched the first of two books with the ids 1 and 2
\* to STATUS_NO; the second still has STATUS_YES
C18_Witness ==
    /\ op = [name |-> "change_status", book_id |-> PyInt(1)]
    /\ ret = Returned(TRUE)
    /\ Len(books) = 2
    /\ books[1].id = PyInt(1) /\ books[1].status = PyStr(STATUS_NO)
    /\ books[2].id = PyInt(2) /\ books[2].status = PyStr(STATUS_YES)

\* The places of the books with this id
WithId(bs, id) == {i \in 1..Len(bs) : bs[i].id = id}

\* The ids are integers below next_id, no two of them equal
WellNumbered(bs, n) ==
    /\ IsInt(n)
    /\ \A i \in 1..Len(bs) : IsInt(bs[i].id) /\ bs[i].id.v < n.v
    /\ \A i, j \in 1..Len(bs) : i # j => bs[i].id # bs[j].id

\* C19: only a load takes the catalog from distinct ids below next_id to
\* anything else, two books with one id included.  Whatever the number of
\* books with the id, change_status switches the first of them, when it has
\* one of the two statuses, and leaves every other book as it is, and
\* remove_book leaves none of them and every other book; with distinct ids
\* that is one book switched and one book removed.
C19_DuplicateIds ==
    [][/\ (WellNumbered(books, next_id) /\ ~WellNumbered(books', next_id'))
            => op'.name \in Loads
       /\ (op'.name = "change_status" /\ WithId(books, op'.book_id) # {}
             /\ StatusOf(books, op'.book_id) \in Statuses)
            => /\ Changed(books, books') = {FirstWithId(books, op'.book_id)}
               /\ StatusOf(books', op'.book_id)
                    = OtherStatus(StatusOf(books, op'.book_id))
               /\ \A i \in WithId(books, op'.book_id) :
                    i # FirstWithId(books, op'.book_id) => books'[i] = books[i]
       /\ op'.name = "remove_book"
            => /\ WithId(books', op'.book_id) = {}
               /\ Len(books') = Len(books) - Cardinality(WithId(books, op'.book_id))
               /\ books' = Others(books, op'.book_id)
       /\ (op'.name \in {"change_status", "remove_book"}
             /\ WellNumbered(books, next_id))
            => Cardinality(WithId(books, op'.book_id)) <= 1]_vars

\* change_status has switched the first of two books with the id 1 and has
\* left the second
C19_Witness ==
    /\ op = [name |-> "change_status", book_id |-> PyInt(1)]
    /\ ret = Returned(TRUE)
    /\ Len(books) = 2
    /\ books[1].id = PyInt(1) /\ books[2].id = PyInt(1)
    /\ books[1].status = PyStr(STATUS_NO) /\ books[2].status = PyStr(STATUS_YES)

====
